---- MODULE Spec2Model ----
(***************************************************************************)
(* clidle: an idle game in the terminal (src/src/main.rs).                 *)
(*                                                                         *)
(* The model follows run_app's loop: a tick check (App::update when one    *)
(* second has elapsed), a draw, and a poll that hands a terminal event to  *)
(* handle_input; a BuyItem game state is then resolved by buy_item and its *)
(* result stored in app.error.                                             *)
(*                                                                         *)
(* f64 values (code_lines, cps) are held as integers counting units of     *)
(* 1/Scale; the catalog's rates are multiples of 1/Scale and every value   *)
(* stays far below 2^53, so the f64 sums and differences are exact.        *)
(* Strings are sequences of one-character strings.                         *)
(***************************************************************************)
EXTENDS Integers, Sequences, FiniteSets, TLC

\* Bounds of the exploration.
MaxInput == 2      \* longest input typed into the input box
MaxBalance == 5    \* largest number of whole code lines reached by 'c' and ticks
MaxOwned == 2      \* largest count of one item

\* Fixed-point denominator for the f64 fields.
Scale == 2

\* Characters typed in Buy mode as KeyCode::Char(c): letters of the item
\* names and 'q', the Normal-mode quit key. The Normal-mode keys 'b', 'c',
\* 's' and 'q' each have their own action.
Chars == {"b", "c", "q"}

\* items.json as read by App::new: cps (in 1/Scale), cost, name.
\* Item ids are the zero-based positions (set by App::new).
items_index ==
    << [cps |-> 1, cost |-> 2, id |-> 0, name |-> <<"b">>],
       [cps |-> 2, cost |-> 3, id |-> 1, name |-> <<"c", "b">>] >>

ItemIds == { i - 1 : i \in DOMAIN items_index }

\* items_index.get(id)
get(id) == items_index[id + 1]

VARIABLES
    input,        \* App.input
    input_mode,   \* App.input_mode: "Normal", "Buy", "Sell"
    owned_items,  \* App.owned_items: map item id -> count
    code_lines,   \* App.code_lines, in units of 1/Scale
    error,        \* App.error: Result<(), ClidleError>
    state,        \* run_app's local `state`: the GameState of this iteration
    drawn_error,  \* the terminal: the app.error the last draw rendered
    pc            \* position in run_app: "tick", "reset", "draw", "poll",
                  \* "done" (returned), "panic"

vars == <<input, input_mode, owned_items, code_lines, error, state,
          drawn_error, pc>>
app == <<input, input_mode, owned_items, code_lines, error>>

\* Result<(), ClidleError>
Ok == [ok |-> TRUE, name |-> <<>>]
BuyingItemNotKnown(item) == [ok |-> FALSE, name |-> item]

\* GameState
NoState == [kind |-> "None", item |-> <<>>]
Noop == [kind |-> "Noop", item |-> <<>>]
Quit == [kind |-> "Quit", item |-> <<>>]
BuyItem(item) == [kind |-> "BuyItem", item |-> item]

EmptyMap == [k \in {} |-> 0]

\* f64::floor of a fixed-point value, as a whole number
floor(x) == x \div Scale

\* `as u64` of a whole f64: saturating at 0 (the upper end is out of reach)
as_u64(x) == IF x < 0 THEN 0 ELSE x

\* u64 `as f64`, in units of 1/Scale
as_f64(n) == n * Scale

\* Mutant of production: the rate of each held item type, its count left out
RECURSIVE production_once(_, _)
production_once(owned, keys) ==
    IF keys = {} THEN 0
    ELSE LET k == CHOOSE x \in keys : TRUE
         IN get(k).cps + production_once(owned, keys \ {k})

\* Sum over the entries of the map of item_count as f64 * item_type.cps
RECURSIVE production(_, _)
production(owned, keys) ==
    IF keys = {} THEN 0
    ELSE LET k == CHOOSE x \in keys : TRUE
         IN owned[k] * get(k).cps + production(owned, keys \ {k})

\* Mutant of update: production is taken from code_lines
update_sub(cl, owned) ==
    LET p == production(owned, DOMAIN owned)
    IN IF cl >= p THEN cl - p ELSE 0

\* App::update: the new code_lines
update(cl, owned) == cl + production(owned, DOMAIN owned)

\* Mutant of find: an unmatched name falls back to the first item
find_or_first(item) ==
    LET hits == { i \in DOMAIN items_index : items_index[i].name = item }
    IN IF hits = {} THEN 0
       ELSE (CHOOSE i \in hits : \A j \in hits : i <= j) - 1

\* Mutant of find: only the text before the first space is matched
find_first_token(item) ==
    LET sp == { i \in 1..Len(item) : item[i] = " " }
        token == IF sp = {} THEN item
                 ELSE SubSeq(item, 1, (CHOOSE i \in sp : \A j \in sp : i <= j) - 1)
        hits == { i \in DOMAIN items_index : items_index[i].name = token }
    IN IF hits = {} THEN -1
       ELSE (CHOOSE i \in hits : \A j \in hits : i <= j) - 1

\* Mutant of find: an item matches when its name starts with the text
find_prefix(item) ==
    LET hits == { i \in DOMAIN items_index :
                    /\ Len(item) <= Len(items_index[i].name)
                    /\ SubSeq(items_index[i].name, 1, Len(item)) = item }
    IN IF hits = {} THEN -1
       ELSE (CHOOSE i \in hits : \A j \in hits : i <= j) - 1

\* .iter().enumerate().find(|(_, i)| i.name == item): the first match, or -1
find(item) ==
    LET hits == { i \in DOMAIN items_index : items_index[i].name = item }
    IN IF hits = {} THEN -1
       ELSE (CHOOSE i \in hits : \A j \in hits : i <= j) - 1

\* TODO buy multiple
count == 1

\* Mutant of can_buy: the comparison is not strict
can_buy_le(cost, cl) == cost * count <= as_u64(floor(cl))

\* Mutant of can_buy: the cost is compared with code_lines, not its floor
can_buy_unfloored(cost, cl) == as_f64(cost * count) < cl

\* item_type.cost * count < app.code_lines.floor() as u64
can_buy(cost, cl) == cost * count < as_u64(floor(cl))

\* Mutant of entry_add: the entry is overwritten with count
entry_insert(owned, item_id) ==
    IF item_id \in DOMAIN owned
    THEN [owned EXCEPT ![item_id] = count]
    ELSE (item_id :> count) @@ owned

\* Mutant of entry_add: a new entry starts at 0
entry_or_default(owned, item_id) ==
    IF item_id \in DOMAIN owned
    THEN [owned EXCEPT ![item_id] = @ + count]
    ELSE (item_id :> 0) @@ owned

\* entry(item_id).and_modify(|e| *e += count).or_insert(count)
entry_add(owned, item_id) ==
    IF item_id \in DOMAIN owned
    THEN [owned EXCEPT ![item_id] = @ + count]
    ELSE (item_id :> count) @@ owned

\* Mutant of buy_item: the entry is added outside the affordability test
buy_item_adds_anyway(cl, owned, item) ==
    LET item_id == find(item) IN
    IF item_id = -1
    THEN [code_lines |-> cl, owned_items |-> owned,
          result |-> BuyingItemNotKnown(item)]
    ELSE [code_lines |-> IF can_buy(get(item_id).cost, cl)
                         THEN cl - as_f64(get(item_id).cost * count) ELSE cl,
          owned_items |-> entry_add(owned, item_id),
          result |-> Ok]

\* buy_item: the new code_lines and owned_items, and the returned Result
buy_item(cl, owned, item) ==
    LET item_id == find(item) IN
    IF item_id = -1
    THEN [code_lines |-> cl, owned_items |-> owned,
          result |-> BuyingItemNotKnown(item)]
    ELSE IF can_buy(get(item_id).cost, cl)
    THEN [code_lines |-> cl - as_f64(get(item_id).cost * count),
          owned_items |-> entry_add(owned, item_id),
          result |-> Ok]
    ELSE [code_lines |-> cl, owned_items |-> owned, result |-> Ok]

Init ==
    /\ input = <<>>
    /\ input_mode = "Normal"
    /\ owned_items = EmptyMap
    /\ code_lines = 0
    /\ error = Ok
    /\ state = NoState
    /\ drawn_error = Ok
    /\ pc = "tick"


----------------------------------------------------------------------------
\* run_app, top of the loop: one second has elapsed since last_tick, and
\* App::update runs
TickDue ==
    /\ pc = "tick"
    /\ update(code_lines, owned_items) <= MaxBalance * Scale
    /\ code_lines' = update(code_lines, owned_items)
    /\ state' = NoState
    /\ pc' = "reset"
    /\ UNCHANGED <<input, input_mode, owned_items, error, drawn_error>>

\* last_tick = Instant::now()
ResetLastTick ==
    /\ pc = "reset"
    /\ pc' = "draw"
    /\ UNCHANGED <<app, state, drawn_error>>

\* run_app, top of the loop: less than one second has elapsed
TickNotDue ==
    /\ pc = "tick"
    /\ state' = NoState
    /\ pc' = "draw"
    /\ UNCHANGED <<app, drawn_error>>

\* terminal.draw(|f| ui(f, &mut app)): ui looks up every owned item id in
\* items_index (unwrap) and lists app.error among the messages
Draw ==
    /\ pc = "draw"
    /\ IF DOMAIN owned_items \subseteq ItemIds
       THEN pc' = "poll" /\ drawn_error' = error
       ELSE pc' = "panic" /\ UNCHANGED drawn_error
    /\ UNCHANGED <<app, state>>

\* Mutant of PollTimeout: the tick is applied at the end of the iteration,
\* after the poll
PollTimeout_ticks ==
    /\ pc = "poll"
    /\ update(code_lines, owned_items) <= MaxBalance * Scale
    /\ code_lines' = update(code_lines, owned_items)
    /\ pc' = "tick"
    /\ UNCHANGED <<input, input_mode, owned_items, error, state, drawn_error>>

\* poll(100ms) returns false: no event
PollTimeout ==
    /\ pc = "poll"
    /\ pc' = "tick"
    /\ UNCHANGED <<app, state, drawn_error>>

\* handle_input reads an event that is not a key: GameState::Noop
OtherEvent ==
    /\ pc = "poll"
    /\ state' = Noop
    /\ pc' = "tick"
    /\ UNCHANGED <<app, drawn_error>>

\* Mutant of NormalKeyB: entering Buy mode clears the input
NormalKeyB_clear ==
    /\ pc = "poll" /\ input_mode = "Normal"
    /\ input_mode' = "Buy"
    /\ input' = <<>>
    /\ state' = Noop
    /\ pc' = "tick"
    /\ UNCHANGED <<owned_items, code_lines, error, drawn_error>>

\* Normal mode, 'b'
NormalKeyB ==
    /\ pc = "poll" /\ input_mode = "Normal"
    /\ input_mode' = "Buy"
    /\ state' = Noop
    /\ pc' = "tick"
    /\ UNCHANGED <<input, owned_items, code_lines, error, drawn_error>>

\* Mutant of NormalKeyC: 'c' adds two code lines
NormalKeyC_double ==
    /\ pc = "poll" /\ input_mode = "Normal"
    /\ code_lines + as_f64(2) <= MaxBalance * Scale
    /\ code_lines' = code_lines + as_f64(2)
    /\ state' = Noop
    /\ pc' = "tick"
    /\ UNCHANGED <<input, input_mode, owned_items, error, drawn_error>>

\* Normal mode, 'c'
NormalKeyC ==
    /\ pc = "poll" /\ input_mode = "Normal"
    /\ code_lines + as_f64(1) <= MaxBalance * Scale
    /\ code_lines' = code_lines + as_f64(1)
    /\ state' = Noop
    /\ pc' = "tick"
    /\ UNCHANGED <<input, input_mode, owned_items, error, drawn_error>>

\* Normal mode, 's'
NormalKeyS ==
    /\ pc = "poll" /\ input_mode = "Normal"
    /\ input_mode' = "Sell"
    /\ state' = Noop
    /\ pc' = "tick"
    /\ UNCHANGED <<input, owned_items, code_lines, error, drawn_error>>

\* Normal mode, 'q': GameState::Quit, run_app returns
NormalKeyQ ==
    /\ pc = "poll" /\ input_mode = "Normal"
    /\ state' = Quit
    /\ pc' = "done"
    /\ UNCHANGED <<app, drawn_error>>

\* Normal mode, any other key (Enter, Esc, Backspace, another character)
NormalKeyOther ==
    /\ pc = "poll" /\ input_mode = "Normal"
    /\ state' = Noop
    /\ pc' = "tick"
    /\ UNCHANGED <<app, drawn_error>>

\* Mutant of BuyKeyChar: 'q' quits in Buy mode too
BuyKeyChar_q_quits(c) ==
    /\ pc = "poll" /\ input_mode = "Buy"
    /\ Len(input) < MaxInput
    /\ IF c = "q"
       THEN state' = Quit /\ pc' = "done" /\ UNCHANGED input
       ELSE input' = Append(input, c) /\ state' = Noop /\ pc' = "tick"
    /\ UNCHANGED <<input_mode, owned_items, code_lines, error, drawn_error>>

\* Buy mode, KeyCode::Char(c): String::push
BuyKeyChar(c) ==
    /\ pc = "poll" /\ input_mode = "Buy"
    /\ Len(input) < MaxInput
    /\ input' = Append(input, c)
    /\ state' = Noop
    /\ pc' = "tick"
    /\ UNCHANGED <<input_mode, owned_items, code_lines, error, drawn_error>>

\* Mutant of pop: the first character is removed
pop_front(s) == IF s = <<>> THEN s ELSE SubSeq(s, 2, Len(s))

\* String::pop
pop(s) == IF s = <<>> THEN s ELSE SubSeq(s, 1, Len(s) - 1)

\* Buy mode, Backspace
BuyKeyBackspace ==
    /\ pc = "poll" /\ input_mode = "Buy"
    /\ input' = pop(input)
    /\ state' = Noop
    /\ pc' = "tick"
    /\ UNCHANGED <<input_mode, owned_items, code_lines, error, drawn_error>>

\* The variants of Enter in Buy mode the mutants below are made of: the mode
\* and the input it leaves, and whether an Ok result leaves app.error alone
EnterVariant(mode_after, input_after, keep_error_on_ok) ==
    /\ pc = "poll" /\ input_mode = "Buy"
    /\ LET r == buy_item(code_lines, owned_items, input) IN
        /\ \A k \in DOMAIN r.owned_items : r.owned_items[k] <= MaxOwned
        /\ code_lines' = r.code_lines
        /\ owned_items' = r.owned_items
        /\ error' = IF keep_error_on_ok /\ r.result.ok THEN error ELSE r.result
    /\ state' = BuyItem(input)
    /\ input' = input_after
    /\ input_mode' = mode_after
    /\ pc' = "tick"
    /\ UNCHANGED drawn_error

\* Mutant of BuyKeyEnter: Enter leaves Buy mode
BuyKeyEnter_to_normal == EnterVariant("Normal", <<>>, FALSE)

\* Mutant of BuyKeyEnter: the input is copied, not drained
BuyKeyEnter_no_drain == EnterVariant("Buy", input, FALSE)

\* Mutant of BuyKeyEnter: app.error is assigned only when buy_item fails
BuyKeyEnter_keep_error == EnterVariant("Buy", <<>>, TRUE)

\* Buy mode, Enter: handle_input drains the input into GameState::BuyItem
\* and returns without assigning input_mode; run_app's match then stores
\* buy_item's result in app.error
BuyKeyEnter ==
    /\ pc = "poll" /\ input_mode = "Buy"
    /\ LET r == buy_item(code_lines, owned_items, input) IN
        /\ \A k \in DOMAIN r.owned_items : r.owned_items[k] <= MaxOwned
        /\ code_lines' = r.code_lines
        /\ owned_items' = r.owned_items
        /\ error' = r.result
    /\ state' = BuyItem(input)
    /\ input' = <<>>
    /\ pc' = "tick"
    /\ UNCHANGED <<input_mode, drawn_error>>

\* Mutant of BuyKeyEsc: Esc clears the input
BuyKeyEsc_clear ==
    /\ pc = "poll" /\ input_mode = "Buy"
    /\ input_mode' = "Normal"
    /\ input' = <<>>
    /\ state' = Noop
    /\ pc' = "tick"
    /\ UNCHANGED <<owned_items, code_lines, error, drawn_error>>

\* Buy mode, Esc: only input_mode is assigned
BuyKeyEsc ==
    /\ pc = "poll" /\ input_mode = "Buy"
    /\ input_mode' = "Normal"
    /\ state' = Noop
    /\ pc' = "tick"
    /\ UNCHANGED <<input, owned_items, code_lines, error, drawn_error>>

\* Buy mode, any other key
BuyKeyOther ==
    /\ pc = "poll" /\ input_mode = "Buy"
    /\ state' = Noop
    /\ pc' = "tick"
    /\ UNCHANGED <<app, drawn_error>>

\* Sell mode, any key: todo!() panics
SellKey ==
    /\ pc = "poll" /\ input_mode = "Sell"
    /\ pc' = "panic"
    /\ UNCHANGED <<app, state, drawn_error>>

Next ==
    \/ TickDue
    \/ ResetLastTick
    \/ TickNotDue
    \/ Draw
    \/ PollTimeout
    \/ OtherEvent
    \/ NormalKeyB
    \/ NormalKeyC
    \/ NormalKeyS
    \/ NormalKeyQ
    \/ NormalKeyOther
    \/ \E c \in Chars : BuyKeyChar(c)
    \/ BuyKeyBackspace
    \/ BuyKeyEnter
    \/ BuyKeyEsc
    \/ BuyKeyOther
    \/ SellKey

Spec == Init /\ [][Next]_vars

----------------------------------------------------------------------------
\* One event handled from any state of the input box: the keyboard delivers
\* a wider set of characters, and the input may hold any text typed so far.

\* Bound of this exploration: longest text in the input box at the start
MaxEntry == 3

\* Characters the keyboard delivers: the four Normal-mode keys, a space, a
\* digit and a letter of no item name
AllChars == Chars \cup {"s", " ", "2", "x"}

\* The texts of at most n characters
Texts(n) == UNION { [1..k -> AllChars] : k \in 0..n }

\* run_app at the poll, in Normal or Buy mode, with any text in the input
\* and nothing or one item owned
InitKeys ==
    /\ input \in Texts(MaxEntry)
    /\ input_mode \in {"Normal", "Buy"}
    /\ owned_items \in {EmptyMap, 0 :> 1}
    /\ code_lines \in 0..(MaxBalance * Scale)
    /\ error = Ok
    /\ state = NoState
    /\ drawn_error = Ok
    /\ pc = "poll"

\* handle_input on one event, and run_app's match on its GameState
NextKeys ==
    \/ OtherEvent
    \/ NormalKeyB
    \/ NormalKeyC
    \/ NormalKeyS
    \/ NormalKeyQ
    \/ NormalKeyOther
    \/ \E c \in AllChars : BuyKeyChar(c)
    \/ BuyKeyBackspace
    \/ BuyKeyEnter
    \/ BuyKeyEsc
    \/ BuyKeyOther

SpecKeys == InitKeys /\ [][NextKeys]_vars

----------------------------------------------------------------------------
TypeOK ==
    /\ input \in Seq(Chars) /\ Len(input) <= MaxInput
    /\ input_mode \in {"Normal", "Buy", "Sell"}
    /\ DOMAIN owned_items \subseteq ItemIds
    /\ \A k \in DOMAIN owned_items : owned_items[k] \in 1..MaxOwned
    /\ code_lines \in 0..(MaxBalance * Scale)
    /\ error.ok \in BOOLEAN
    /\ drawn_error.ok \in BOOLEAN
    /\ state.kind \in {"None", "Noop", "Quit", "BuyItem"}
    /\ pc \in {"tick", "reset", "draw", "poll", "done", "panic"}

----------------------------------------------------------------------------
\* Vocabulary of the properties below.

\* The input names a catalog item
Known(item) == \E i \in DOMAIN items_index : items_index[i].name = item

\* The id of the catalog item the input names
IdOf(item) == CHOOSE id \in ItemIds : get(id).name = item

\* The count held of an item, 0 when the map has no entry
Held(owned, id) == IF id \in DOMAIN owned THEN owned[id] ELSE 0

\* total_cost < floor(balance), on whole code lines
Affordable(id, cl) == get(id).cost * 1 < cl \div Scale

\* Enter in Buy mode on a known item that passes the affordability check
ApprovedBuy == BuyKeyEnter /\ Known(input) /\ Affordable(IdOf(input), code_lines)

\* Enter in Buy mode on a known item that fails the affordability check
RejectedBuy == BuyKeyEnter /\ Known(input) /\ ~Affordable(IdOf(input), code_lines)

\* Enter in Buy mode on a name no catalog item has
UnknownBuy == BuyKeyEnter /\ ~Known(input)

\* The last event handled was a buy of a known item
JustBoughtKnown == pc = "tick" /\ state.kind = "BuyItem" /\ Known(state.item)

\* C1: a purchase of a known item changes code_lines or owned_items exactly
\* when cost * quantity is strictly below the floor of code_lines; with the
\* floor equal to the cost the buy changes neither.
C1_ApprovedIffStrictlyBelowFloor ==
    [][BuyKeyEnter /\ Known(input) =>
        ((code_lines' # code_lines \/ owned_items' # owned_items)
            <=> Affordable(IdOf(input), code_lines))]_vars

\* C1 witness: a buy of a known item was just handled with the floor of
\* code_lines equal to its cost, and nothing is owned.
C1_Witness ==
    /\ JustBoughtKnown
    /\ code_lines \div Scale = get(IdOf(state.item)).cost
    /\ owned_items = EmptyMap

\* C2: an approved purchase takes exactly cost * quantity from code_lines,
\* adds exactly quantity to the bought item's count (a new entry starts at
\* quantity) and leaves every other item's entry as it was.
C2_ApprovedBuyDebitsAndAdds ==
    [][ApprovedBuy =>
        LET id == IdOf(input) IN
        /\ code_lines' = code_lines - get(id).cost * 1 * Scale
        /\ id \in DOMAIN owned_items'
        /\ owned_items'[id] = Held(owned_items, id) + 1
        /\ \A k \in ItemIds \ {id} :
            /\ (k \in DOMAIN owned_items') <=> (k \in DOMAIN owned_items)
            /\ Held(owned_items', k) = Held(owned_items, k)]_vars

\* C2 witness: a buy of an item already held was just approved (the item is
\* affordable even after the debit, so the buy cannot have been rejected),
\* with another item held too.
C2_Witness ==
    /\ JustBoughtKnown
    /\ Affordable(IdOf(state.item), code_lines)
    /\ Held(owned_items, IdOf(state.item)) = 2
    /\ \E k \in DOMAIN owned_items : k # IdOf(state.item)

\* C3 as stated: a rejected buy of a known item changes no state: code_lines,
\* owned_items, input_mode, input and error are as before.
C3_Original_RejectedBuyChangesNothing ==
    [][RejectedBuy => UNCHANGED app]_vars

\* C3 amended: a rejected buy of a known item returns Ok and leaves
\* code_lines, owned_items and input_mode unchanged; the input is emptied
\* and error is set to Ok.
C3_RejectedBuyKeepsBalanceAndHoldings ==
    [][RejectedBuy =>
        /\ UNCHANGED <<code_lines, owned_items, input_mode>>
        /\ input' = <<>>
        /\ error' = Ok]_vars

\* C3 witness: a buy of a known item that is not owned was just handled (it
\* was rejected), while the screen still shows an earlier error.
C3_Witness ==
    /\ JustBoughtKnown
    /\ IdOf(state.item) \notin DOMAIN owned_items
    /\ ~drawn_error.ok
    /\ error = Ok

\* C4: a buy of a name no catalog item has records BuyingItemNotKnown of
\* that name in error and leaves code_lines and owned_items unchanged.
C4_UnknownItemIsRecorded ==
    [][UnknownBuy =>
        /\ error' = [ok |-> FALSE, name |-> input]
        /\ UNCHANGED <<code_lines, owned_items>>]_vars

\* C4 witness: an unknown name was just bought and recorded, with enough
\* code lines to buy any item.
C4_Witness ==
    /\ pc = "tick" /\ state.kind = "BuyItem" /\ ~Known(state.item)
    /\ error = [ok |-> FALSE, name |-> state.item]
    /\ \A id \in ItemIds : Affordable(id, code_lines)

\* The sum over all items of count * rate
RECURSIVE RateSum(_, _)
RateSum(owned, n) ==
    IF n = 0 THEN 0
    ELSE Held(owned, n - 1) * items_index[n].cps + RateSum(owned, n - 1)

\* C5: one tick adds to code_lines exactly the sum over the held items of
\* count * rate, over the holdings at the start of the tick, and changes
\* nothing else.
C5_TickAddsRateSum ==
    [][TickDue =>
        /\ code_lines' = code_lines + RateSum(owned_items, Len(items_index))
        /\ UNCHANGED <<input, input_mode, owned_items, error>>]_vars

\* C5 witness: App::update has just run with both items held, one of them
\* twice.
C5_Witness ==
    /\ pc = "reset"
    /\ DOMAIN owned_items = ItemIds
    /\ \E k \in ItemIds : owned_items[k] = 2

\* C6: code_lines starts at 0 and every step that is not an approved
\* purchase leaves it unchanged or larger.
C6_BalanceOnlyFallsByPurchase ==
    /\ code_lines = 0
    /\ [][~ApprovedBuy => code_lines' >= code_lines]_vars

\* C6 witness: App::update has just run and code_lines has a fractional
\* part, which only production gives it.
C6_Witness ==
    /\ pc = "reset"
    /\ code_lines % Scale # 0
    /\ code_lines > Scale

\* C7 as stated: Enter in Buy mode always ends in Normal mode with an empty
\* input.
C7_Original_SubmitEndsInNormal ==
    [][BuyKeyEnter => input_mode' = "Normal" /\ input' = <<>>]_vars

\* C7 amended: Enter in Buy mode always ends still in Buy mode with an empty
\* input; when the input is an affordable item's name, that item's count is
\* incremented by 1 and error is Ok.
C7_SubmitStaysInBuyMode ==
    [][BuyKeyEnter =>
        /\ input_mode' = "Buy"
        /\ input' = <<>>
        /\ (Known(input) /\ Affordable(IdOf(input), code_lines) =>
              /\ Held(owned_items', IdOf(input)) =
                    Held(owned_items, IdOf(input)) + 1
              /\ error' = Ok)]_vars

\* C7 witness: the first buy of an item was just approved; the mode is Buy,
\* the input empty and no error set.
C7_Witness ==
    /\ JustBoughtKnown
    /\ Affordable(IdOf(state.item), code_lines)
    /\ Held(owned_items, IdOf(state.item)) = 1
    /\ input_mode = "Buy" /\ input = <<>> /\ error = Ok

\* C8 as stated: Esc in Buy mode ends in Normal mode with an empty input and
\* code_lines and owned_items unchanged.
C8_Original_CancelDiscardsInput ==
    [][BuyKeyEsc =>
        /\ input_mode' = "Normal"
        /\ input' = <<>>
        /\ UNCHANGED <<code_lines, owned_items>>]_vars

\* C8 amended: Esc in Buy mode ends in Normal mode with the input kept as
\* typed, and code_lines and owned_items unchanged.
C8_CancelKeepsInput ==
    [][BuyKeyEsc =>
        /\ input_mode' = "Normal"
        /\ input' = input
        /\ UNCHANGED <<code_lines, owned_items>>]_vars

\* C8 witness: Normal mode with typed text still in the input, right after
\* a key was handled.
C8_Witness ==
    /\ pc = "tick" /\ state.kind = "Noop"
    /\ input_mode = "Normal"
    /\ Len(input) = MaxInput

\* C9 as stated: the input is empty right after every entry into Buy or
\* Sell mode.
C9_Original_InputEmptyOnEntry ==
    [][NormalKeyB \/ NormalKeyS => input' = <<>>]_vars

\* C9 amended: entering Buy or Sell mode leaves the input as it was: it is
\* empty on entry only when it was empty before, and text typed in a
\* cancelled Buy session is still there.
C9_InputKeptOnEntry ==
    [][NormalKeyB \/ NormalKeyS =>
        /\ input' = input
        /\ input_mode' \in {"Buy", "Sell"}]_vars

\* C9 witness: Sell mode, where no key can be typed, was just entered with
\* text in the input.
C9_Witness ==
    /\ pc = "tick" /\ state.kind = "Noop"
    /\ input_mode = "Sell"
    /\ input # <<>>

\* C10 as stated: once an error is recorded, a later Enter on a known item
\* leaves error holding it.
C10_Original_ErrorSurvivesSuccess ==
    [][BuyKeyEnter /\ ~error.ok /\ Known(input) => error' = error]_vars

\* C10 amended: error is assigned by every Enter in Buy mode and by nothing
\* else: a failed buy records its error, and a later buy that succeeds or is
\* rejected for insufficient funds resets error to Ok.
C10_ErrorIsResultOfLastBuy ==
    [][/\ BuyKeyEnter =>
            error' = IF Known(input) THEN Ok
                     ELSE [ok |-> FALSE, name |-> input]
       /\ ~BuyKeyEnter => error' = error]_vars

\* C10 witness: a buy of a known item was just approved and error is Ok,
\* while the screen still shows the error of an earlier buy.
C10_Witness ==
    /\ JustBoughtKnown
    /\ Affordable(IdOf(state.item), code_lines)
    /\ ~drawn_error.ok
    /\ error = Ok

\* The input is an item's name, a space and one more character
NameAndToken(id, c) == get(id).name \o <<" ", c>>

\* C11 as stated: the input is split on whitespace into an item name and an
\* optional quantity that defaults to 1: "<name> 2" for an item affordable
\* twice adds 2 to its count and takes cost * 2, and "<name> x" buys 1.
C11_Original_QuantityIsParsed ==
    [][BuyKeyEnter =>
        \A id \in ItemIds :
        /\ (input = NameAndToken(id, "2")
                /\ get(id).cost * 2 < code_lines \div Scale =>
              /\ Held(owned_items', id) = Held(owned_items, id) + 2
              /\ code_lines' = code_lines - get(id).cost * 2 * Scale)
        /\ (input = NameAndToken(id, "x") /\ Affordable(id, code_lines) =>
              /\ Held(owned_items', id) = Held(owned_items, id) + 1
              /\ code_lines' = code_lines - get(id).cost * Scale)]_vars

\* C11 amended: the input is not split: the whole input, spaces included,
\* is the item name and the quantity is always 1. "<name> 2" and
\* "<name> x" are unknown items, recorded in error with code_lines and
\* owned_items unchanged; "<name>" alone, when affordable, adds 1 to the
\* item's count and takes cost * 1.
C11_WholeInputIsTheName ==
    [][BuyKeyEnter =>
        \A id \in ItemIds :
        /\ ((\E c \in {"2", "x"} : input = NameAndToken(id, c)) =>
              /\ error' = [ok |-> FALSE, name |-> input]
              /\ UNCHANGED <<code_lines, owned_items>>)
        /\ (input = get(id).name /\ Affordable(id, code_lines) =>
              /\ Held(owned_items', id) = Held(owned_items, id) + 1
              /\ code_lines' = code_lines - get(id).cost * Scale)]_vars

\* C11 witness: "b 2" was just submitted with code lines enough for two,
\* and is recorded as an unknown item.
C11_Witness ==
    /\ pc = "tick"
    /\ state = BuyItem(NameAndToken(0, "2"))
    /\ get(0).cost * 2 < code_lines \div Scale
    /\ error = [ok |-> FALSE, name |-> NameAndToken(0, "2")]

\* C12: no command sequence aborts run_app: in Sell mode every key is
\* handled without a panic, and the loop stops only through Quit.
C12_NoCommandAborts == pc # "panic"

\* C13: owned_items changes only in an approved purchase (ticks, 'c', mode
\* changes, edits of the input, Esc, and rejected or failed buys leave every
\* count as it was), and no count ever decreases.
C13_HoldingsChangeOnlyByPurchase ==
    [][/\ ~ApprovedBuy => owned_items' = owned_items
       /\ \A k \in ItemIds :
            Held(owned_items', k) >= Held(owned_items, k)]_vars

\* C13 witness: a buy of an unknown name was just handled while both items
\* are held.
C13_Witness ==
    /\ pc = "tick" /\ state.kind = "BuyItem" /\ ~Known(state.item)
    /\ DOMAIN owned_items = ItemIds

\* C14: in every iteration of run_app's loop the tick, when due, is applied
\* first, then the draw, then the poll: production is added only at the top
\* of the loop, nothing but production changes the app between the top of
\* the loop and the poll, and a command is handled only at the poll, so it
\* sees a balance that includes the iteration's production.
C14_TickBeforeDrawBeforePoll ==
    [][/\ pc = "tick" =>
            /\ pc' \in {"reset", "draw"}
            /\ UNCHANGED <<input, input_mode, owned_items, error>>
            /\ \/ pc' = "draw" /\ code_lines' = code_lines
               \/ /\ pc' = "reset"
                  /\ code_lines' =
                        code_lines + RateSum(owned_items, Len(items_index))
       /\ pc = "reset" => pc' = "draw" /\ UNCHANGED app
       /\ pc = "draw" => pc' \in {"poll", "panic"} /\ UNCHANGED app
       /\ pc = "poll" =>
            /\ pc' \in {"tick", "done", "panic"}
            /\ state' = state => UNCHANGED app
       /\ state' # state /\ state'.kind # "None" => pc = "poll"]_vars

\* C14 witness: the tick of this iteration has just been applied, before
\* the draw and the poll, with an item's name typed in Buy mode and waiting
\* for Enter.
C14_Witness ==
    /\ pc = "reset"
    /\ owned_items # EmptyMap
    /\ input_mode = "Buy"
    /\ Known(input)

\* C15: Enter in Buy mode on an empty input is an unknown-item error (no
\* catalog item has the empty name): error becomes BuyingItemNotKnown of
\* the empty name, and code_lines and owned_items are unchanged.
C15_EmptyInputIsUnknownItem ==
    [][BuyKeyEnter /\ input = <<>> =>
        /\ error' = [ok |-> FALSE, name |-> <<>>]
        /\ UNCHANGED <<code_lines, owned_items>>]_vars

\* C15 witness: the empty input was just submitted, with code lines enough
\* for any item, and the error holds the empty name.
C15_Witness ==
    /\ pc = "tick"
    /\ state = BuyItem(<<>>)
    /\ error = [ok |-> FALSE, name |-> <<>>]
    /\ \A id \in ItemIds : Affordable(id, code_lines)

\* C16: keys are read by mode: in Buy mode the characters 'q', 'c', 'b' and
\* 's' are appended to the input and neither stop run_app nor change
\* code_lines or input_mode; run_app returns, code_lines grows by a key and
\* Buy or Sell mode is entered only from Normal mode.
C16_KeysAreReadByMode ==
    [][/\ \A c \in {"q", "c", "b", "s"} :
            BuyKeyChar(c) =>
                /\ input' = input \o <<c>>
                /\ pc' # "done"
                /\ UNCHANGED <<code_lines, input_mode>>
       /\ pc' = "done" => input_mode = "Normal"
       /\ code_lines' > code_lines => input_mode = "Normal"
       /\ input_mode' # input_mode /\ input_mode' \in {"Buy", "Sell"} =>
            input_mode = "Normal"]_vars

\* C16 witness: Buy mode right after a key, with 's' and 'q' in the input
\* as text and no code lines.
C16_Witness ==
    /\ pc = "tick" /\ state = Noop
    /\ input_mode = "Buy"
    /\ input = <<"s", "q">>
    /\ code_lines = 0

\* C17: in Normal mode 'c' adds exactly one code line and leaves the mode
\* Normal and owned_items, input and error unchanged; a Normal-mode key
\* other than 'b', 'c', 's', 'q' changes nothing of the app.
C17_CodeKeyAddsOne ==
    [][/\ NormalKeyC =>
            /\ code_lines' = code_lines + 1 * Scale
            /\ input_mode' = "Normal"
            /\ UNCHANGED <<owned_items, input, error>>
       /\ NormalKeyOther => UNCHANGED app /\ pc' = "tick"]_vars

\* C17 witness: the first code line was just made with 'c': nothing is
\* owned, so no tick produced it.
C17_Witness ==
    /\ pc = "tick" /\ state = Noop
    /\ input_mode = "Normal"
    /\ code_lines = 1 * Scale
    /\ owned_items = EmptyMap
    /\ input = <<>> /\ error = Ok

\* C18: in Buy mode a character key appends its character at the end of the
\* input and Backspace removes exactly the last character (nothing from an
\* empty input); both leave input_mode, code_lines, owned_items and error
\* unchanged, and Backspace after a character key gives the input back.
C18_AppendAndDeleteAtTheEnd ==
    [][/\ \A c \in Chars :
            BuyKeyChar(c) =>
                /\ Len(input') = Len(input) + 1
                /\ input'[Len(input')] = c
                /\ \A i \in 1..Len(input) : input'[i] = input[i]
                /\ pop(input') = input
                /\ UNCHANGED <<input_mode, code_lines, owned_items, error>>
       /\ BuyKeyBackspace =>
            /\ IF input = <<>> THEN input' = <<>>
               ELSE /\ Len(input') = Len(input) - 1
                    /\ \A i \in 1..Len(input') : input'[i] = input[i]
            /\ UNCHANGED <<input_mode, code_lines, owned_items, error>>]_vars

\* C18 witness: Buy mode right after a key, with two different characters
\* in the input.
C18_Witness ==
    /\ pc = "tick" /\ state = Noop
    /\ input_mode = "Buy"
    /\ input = <<"c", "b">>

\* C19: code_lines is never negative, and right after every purchase (an
\* Enter that changes owned_items) it is at least one whole code line.
C19_BalanceNeverNegative ==
    /\ [](code_lines >= 0)
    /\ [][BuyKeyEnter /\ owned_items' # owned_items =>
            code_lines' >= 1 * Scale]_vars

\* C19 witness: item 0 alone is held and a buy of it was just approved (it
\* is affordable even after the debit), leaving more than one code line.
C19_Witness ==
    /\ JustBoughtKnown
    /\ IdOf(state.item) = 0
    /\ DOMAIN owned_items = {0}
    /\ Affordable(0, code_lines)
    /\ code_lines >= 1 * Scale

\* C20: every key of owned_items is a position of items_index, which is
\* also that item's id, and its count is at least 1; so the lookups of
\* update and ui never fail: the draw always goes on to the poll.
C20_OwnedKeysAreItemIds ==
    /\ [](\A k \in DOMAIN owned_items :
            /\ k \in 0..(Len(items_index) - 1)
            /\ items_index[k + 1].id = k
            /\ owned_items[k] >= 1)
    /\ [][pc = "draw" => pc' = "poll"]_vars

\* C20 witness: the draw has just listed both items as owned, before any
\* event of this iteration.
C20_Witness ==
    /\ pc = "poll" /\ state = NoState
    /\ DOMAIN owned_items = ItemIds

====
